---- MODULE Spec2Model ----
(* A model of the MAF reader, the MAF block slicer, the MAF index builder   *)
(* and the strand/coordinate accessors of wgatools:                         *)
(*   src/src/parser/maf.rs, src/src/parser/paf.rs, src/src/tools/index.rs   *)
EXTENDS Integers, Sequences, FiniteSets, TLC

VARIABLES
    pc,        \* position of the running operation
    src,       \* the MAF source: a sequence of lines, each a sequence of tokens
    pos,       \* BufReader: number of lines of src consumed so far
    header,    \* MAFReader.header
    emitted,   \* items collected by a caller that iterates records()
    idx,       \* build_index: the MafIndex under construction
    name_vec,  \* build_index: names seen in the current record
    record,    \* build_index: the rows of the current record
    ord,       \* build_index: position of the next row of the record
    offset,    \* build_index: stream position taken before the record was read
    written,   \* what was serialized to idx_wtr
    result,    \* what build_index returned
    nread,     \* number of records build_index obtained from the reader
    slines,    \* MAFRecord.slines of the record being sliced / queried
    block0,    \* the record as it was before the operation
    cut,       \* arguments of slice_block
    paf,       \* a PafRecord
    out        \* values returned by the accessors called so far

vars == <<pc, src, pos, header, emitted, idx, name_vec, record, ord, offset,
          written, result, nread, slines, block0, cut, paf, out>>

readerVars == <<src, pos, header, emitted>>
indexVars  == <<idx, name_vec, record, ord, offset, written, result, nread>>
recordVars == <<slines, block0, cut, paf, out>>

----------------------------------------------------------------------------
(* Bounds of the model *)

\* longest gapped sequence of a row of a block that is sliced
MaxCols == 3

\* largest start, align_size and size of a row whose coordinates are queried
MaxCoord == 3

\* the model's stand-in for 2^64, the modulus of u64 arithmetic
U64Modulus == 16

\* most lines of a MAF source handed to the reader
MaxLines == 5

----------------------------------------------------------------------------
(* Strings as sequences of characters *)

Gap == "-"
Bases == {"A", "C"}

RECURSIVE CountGaps(_)
\* str.matches('-').count()
CountGaps(s) ==
    IF s = <<>> THEN 0
    ELSE (IF Head(s) = Gap THEN 1 ELSE 0) + CountGaps(Tail(s))

\* &s[a..b]: Rust's half-open, 0-based range of a string; it panics when
\* a > b or b > len
StrRangeOk(s, a, b) == a <= b /\ b <= Len(s)
StrRange(s, a, b) == SubSeq(s, a + 1, b)

----------------------------------------------------------------------------
(* MAFSLine::get_col_coord *)

RECURSIVE ColScan(_, _, _, _)
\* the loop of get_col_coord from 0-based column i on, flag non-gap
\* characters counted so far; col_coord stays 0 when the loop runs out
ColScan(seq, p, i, flag) ==
    IF i >= Len(seq) THEN 0
    ELSE IF seq[i + 1] = Gap THEN ColScan(seq, p, i + 1, flag)
    ELSE IF flag + 1 = p + 1 THEN i
    ELSE ColScan(seq, p, i + 1, flag + 1)

get_col_coord(sline, p) == ColScan(sline.seq, p, 0, 0)

----------------------------------------------------------------------------
(* MAFRecord::slice_block *)

\* the other rows with the gaps of the sliced seq left in align_size
SliceOther_GapsCounted(sline, cut_start_index, start_coord, end_coord) ==
    LET new_seq == StrRange(sline.seq, start_coord, end_coord)
        pre_align_size == end_coord - start_coord
    IN  [sline EXCEPT !.start = sline.start + cut_start_index,
                      !.align_size = pre_align_size,
                      !.seq = new_seq]

\* the other rows of the record: their start, align_size and seq once the
\* column range [start_coord, end_coord) is known
SliceOther(sline, cut_start_index, start_coord, end_coord) ==
    LET new_seq == StrRange(sline.seq, start_coord, end_coord)
        pre_align_size == end_coord - start_coord
        gap_size == CountGaps(new_seq)
    IN  [sline EXCEPT !.start = sline.start + cut_start_index,
                      !.align_size = pre_align_size - gap_size,
                      !.seq = new_seq]

\* the whole of slice_block on rows ss; [panic, slines]
slice_block(ss, cut_start, cut_end, o) ==
    LET sline == ss[o + 1]
        cut_start_index == cut_start - sline.start
        cut_end_index == cut_end - sline.start
        moved == [sline EXCEPT !.start = cut_start,
                               !.align_size = cut_end - cut_start]
        start_coord == get_col_coord(moved, cut_start_index)
        end_coord == get_col_coord(moved, cut_end_index)
    IN  IF ~StrRangeOk(moved.seq, start_coord, end_coord)
        THEN [panic |-> TRUE, slines |-> [ss EXCEPT ![o + 1] = moved]]
        ELSE [panic |-> FALSE,
              slines |->
                [i \in 1..Len(ss) |->
                    IF i = o + 1
                    THEN [moved EXCEPT
                            !.seq = StrRange(moved.seq, start_coord, end_coord)]
                    ELSE SliceOther(ss[i], cut_start_index,
                                    start_coord, end_coord)]]

----------------------------------------------------------------------------
(* u64 arithmetic: a subtraction below zero panics when the build checks    *)
(* overflow (debug profile) and wraps when it does not (release profile)    *)

U64Sub(a, b, checks) ==
    IF a < b /\ checks THEN [panic |-> TRUE, v |-> 0]
    ELSE [panic |-> FALSE, v |-> (a - b) % U64Modulus]

U64Add(a, b, checks) ==
    IF a + b >= U64Modulus /\ checks THEN [panic |-> TRUE, v |-> 0]
    ELSE [panic |-> FALSE, v |-> (a + b) % U64Modulus]

----------------------------------------------------------------------------
(* impl AlignRecord for MAFRecord, impl AlignRecord for PafRecord *)

Positive == "Positive"
Negative == "Negative"

MafQueryStrand(ss) == ss[2].strand

\* query_start that forgets to subtract align_size on the Negative strand
MafQueryStart_NoAlign(ss, checks) ==
    IF MafQueryStrand(ss) = Positive
    THEN [panic |-> FALSE, v |-> ss[2].start]
    ELSE U64Sub(ss[2].size, ss[2].start, checks)

MafQueryStart(ss, checks) ==
    IF MafQueryStrand(ss) = Positive
    THEN [panic |-> FALSE, v |-> ss[2].start]
    ELSE LET d == U64Sub(ss[2].size, ss[2].start, checks)
         IN  IF d.panic THEN d ELSE U64Sub(d.v, ss[2].align_size, checks)

MafQueryEnd(ss, checks) ==
    IF MafQueryStrand(ss) = Positive
    THEN U64Add(ss[2].start, ss[2].align_size, checks)
    ELSE U64Sub(ss[2].size, ss[2].start, checks)

MafTargetStrand(ss) == ss[1].strand

PafTargetStrand(p) == Positive

----------------------------------------------------------------------------
(* Values of the variables an operation does not use *)

NoRecord == <<>>
NoPaf == [strand |-> Positive]
NoCut == [cut_start |-> 0, cut_end |-> 0, ord |-> 0]
NoOut == <<>>

IdleReader ==
    /\ src = <<>>
    /\ pos = 0
    /\ header = <<>>
    /\ emitted = <<>>

IdleIndex ==
    /\ idx = <<>>
    /\ name_vec = <<>>
    /\ record = <<>>
    /\ ord = 0
    /\ offset = 0
    /\ written = <<>>
    /\ result = [err |-> "none", name |-> ""]
    /\ nread = 0

IdleRecord ==
    /\ slines = NoRecord
    /\ block0 = NoRecord
    /\ cut = NoCut
    /\ paf = NoPaf
    /\ out = NoOut

----------------------------------------------------------------------------
(* Slicing a record: SpecSlice *)

RECURSIVE CountBases(_)
CountBases(s) ==
    IF s = <<>> THEN 0
    ELSE (IF Head(s) = Gap THEN 0 ELSE 1) + CountBases(Tail(s))

GappedSeqs(n) == [1..n -> Bases \cup {Gap}]

SliceRow(name, start, seq) ==
    [name |-> name, start |-> start, align_size |-> CountBases(seq),
     strand |-> Positive, size |-> 9, seq |-> seq]

\* the valid two-row blocks: one column count, align_size = non-gap count
ValidBlocks ==
    UNION { { <<SliceRow("ref", ts, s1), SliceRow("contig", 1, s2)>> :
                s1 \in GappedSeqs(n), s2 \in GappedSeqs(n), ts \in {0, 2} } :
            n \in 1..MaxCols }

InitSlice ==
    /\ pc = "ready"
    /\ slines \in ValidBlocks
    /\ block0 = slines
    /\ cut = NoCut
    /\ paf = NoPaf
    /\ out = NoOut
    /\ IdleReader
    /\ IdleIndex

\* record.slice_block(cut_start, cut_end, ord) with a range inside the row
SliceBlock ==
    /\ pc = "ready"
    /\ \E o \in 0..(Len(slines) - 1) :
         \E cs \in slines[o + 1].start ..
                   (slines[o + 1].start + slines[o + 1].align_size) :
           \E ce \in cs .. (slines[o + 1].start + slines[o + 1].align_size) :
             LET r == slice_block(slines, cs, ce, o)
             IN  /\ slines' = r.slines
                 /\ pc' = IF r.panic THEN "panic" ELSE "sliced"
                 /\ cut' = [cut_start |-> cs, cut_end |-> ce, ord |-> o]
    /\ UNCHANGED <<block0, paf, out>>
    /\ UNCHANGED readerVars
    /\ UNCHANGED indexVars

NextSlice == SliceBlock

SpecSlice == InitSlice /\ [][NextSlice]_vars

\* the call was slice_block(target.start, target.start + target.align_size, 0)
FullRangeCut ==
    /\ cut.ord = 0
    /\ cut.cut_start = block0[1].start
    /\ cut.cut_end = block0[1].start + block0[1].align_size

\* C1: slicing a valid block on its target row to the full original target
\* range completes without failure and leaves every row's seq, start and
\* align_size as they were.
C1_FullRangeIdentity ==
    (pc \in {"sliced", "panic"} /\ FullRangeCut)
        => (pc = "sliced" /\ slines = block0)

\* the row the call sliced on, as it was before the call
Target0 == block0[cut.ord + 1]

\* the call's range lies strictly inside the target row and is not empty
InteriorCut ==
    /\ Target0.start <= cut.cut_start
    /\ cut.cut_start < cut.cut_end
    /\ cut.cut_end < Target0.start + Target0.align_size

\* the 0-based column of the non-gap character of seq that has k non-gap
\* characters before it
ColOfBase(seq, k) ==
    CHOOSE c \in 0..(Len(seq) - 1) :
        seq[c + 1] # Gap /\ CountBases(SubSeq(seq, 1, c)) = k

\* the column range of the target range [cut_start, cut_end)
FirstCol == ColOfBase(Target0.seq, cut.cut_start - Target0.start)
EndCol == ColOfBase(Target0.seq, cut.cut_end - Target0.start)

\* C12: after slice_block on a valid block every non-target row has
\* start = its old start + the number of non-gap characters of its own old
\* seq before the first column of the sliced column range, and
\* align_size = the column range's length - the gaps of its sliced seq,
\* also when its gaps are at other columns than the target's.
C12_OtherRowsOwnOffset ==
    (pc = "sliced" /\ InteriorCut) =>
        \A i \in 1..Len(slines) :
            i # cut.ord + 1 =>
                /\ slines[i].start =
                       block0[i].start
                       + CountBases(SubSeq(block0[i].seq, 1, FirstCol))
                /\ slines[i].align_size =
                       (EndCol - FirstCol) - CountGaps(slines[i].seq)

\* C13: for a valid block and a target range with
\* target.start <= cut_start < cut_end < target.start + target.align_size,
\* slice_block returns and afterwards all rows' seq have one length, every
\* row's number of non-gap characters is its align_size, the target row has
\* start = cut_start and align_size = cut_end - cut_start, and every row's
\* seq is the substring of its old seq at one column range, the columns of
\* the target range.
C13_InteriorCutKeepsInvariants ==
    (pc \in {"sliced", "panic"} /\ InteriorCut) =>
        /\ pc = "sliced"
        /\ \A i \in 1..Len(slines) :
              /\ Len(slines[i].seq) = Len(slines[1].seq)
              /\ CountBases(slines[i].seq) = slines[i].align_size
              /\ slines[i].seq = StrRange(block0[i].seq, FirstCol, EndCol)
        /\ slines[cut.ord + 1].start = cut.cut_start
        /\ slines[cut.ord + 1].align_size = cut.cut_end - cut.cut_start

\* an interior cut was made and in its column range each row has a gap at a
\* column where the other row has a base
C13_Witness ==
    /\ pc = "sliced"
    /\ InteriorCut
    /\ \E c \in 1..Len(slines[1].seq) :
          slines[1].seq[c] = Gap /\ slines[2].seq[c] # Gap
    /\ \E c \in 1..Len(slines[1].seq) :
          slines[1].seq[c] # Gap /\ slines[2].seq[c] = Gap

----------------------------------------------------------------------------
(* The accessors of a record: SpecRecord *)

Strands == {Positive, Negative}

Ungapped(n) == [i \in 1..n |-> "A"]

QueryRows ==
    { [name |-> "contig", start |-> st, align_size |-> al, strand |-> sd,
       size |-> sz, seq |-> Ungapped(al)] :
        st \in 0..MaxCoord, al \in 0..MaxCoord, sz \in 0..MaxCoord,
        sd \in Strands }

TargetRows ==
    { [name |-> "ref", start |-> 1, align_size |-> 1, strand |-> sd,
       size |-> 9, seq |-> Ungapped(1)] : sd \in Strands }

PafRecords == { [strand |-> sd] : sd \in Strands }

InitRecord ==
    /\ pc = "ready"
    /\ slines \in { <<t, q>> : t \in TargetRows, q \in QueryRows }
    /\ block0 = slines
    /\ cut = NoCut
    /\ paf \in PafRecords
    /\ out = NoOut
    /\ IdleReader
    /\ IdleIndex

Returned(key) == key \in DOMAIN out

\* the accessor called returned v
Return(key, v) ==
    out' = [k \in DOMAIN out \cup {key} |-> IF k = key THEN v ELSE out[k]]

\* the accessor called returned r.v, or it panicked
Outcome(key, r) ==
    IF r.panic
    THEN pc' = "panic" /\ UNCHANGED out
    ELSE pc' = pc /\ Return(key, r.v)

\* MAFRecord::query_start
QueryStart ==
    /\ pc = "ready"
    /\ ~Returned("query_start")
    /\ \E checks \in BOOLEAN :
         Outcome("query_start", MafQueryStart(slines, checks))
    /\ UNCHANGED <<slines, block0, cut, paf>>
    /\ UNCHANGED readerVars
    /\ UNCHANGED indexVars

\* MAFRecord::query_end
QueryEnd ==
    /\ pc = "ready"
    /\ ~Returned("query_end")
    /\ \E checks \in BOOLEAN :
         Outcome("query_end", MafQueryEnd(slines, checks))
    /\ UNCHANGED <<slines, block0, cut, paf>>
    /\ UNCHANGED readerVars
    /\ UNCHANGED indexVars

\* MAFRecord::target_strand
TargetStrandMaf ==
    /\ pc = "ready"
    /\ ~Returned("maf_target_strand")
    /\ Return("maf_target_strand", MafTargetStrand(slines))
    /\ UNCHANGED <<pc, slines, block0, cut, paf>>
    /\ UNCHANGED readerVars
    /\ UNCHANGED indexVars

\* PafRecord::target_strand
TargetStrandPaf ==
    /\ pc = "ready"
    /\ ~Returned("paf_target_strand")
    /\ Return("paf_target_strand", PafTargetStrand(paf))
    /\ UNCHANGED <<pc, slines, block0, cut, paf>>
    /\ UNCHANGED readerVars
    /\ UNCHANGED indexVars

NextRecord ==
    \/ QueryStart
    \/ QueryEnd
    \/ TargetStrandMaf
    \/ TargetStrandPaf

SpecRecord == InitRecord /\ [][NextRecord]_vars

\* C9: target_strand() returns Positive for every record, PAF-backed or
\* MAF-backed, whatever strand the record or its first row carries.
C9_TargetStrandPositive ==
    /\ Returned("paf_target_strand") => out["paf_target_strand"] = Positive
    /\ Returned("maf_target_strand") => out["maf_target_strand"] = Positive

\* the query row fits its sequence: start + align_size <= size
QueryRowFits == slines[2].start + slines[2].align_size <= slines[2].size

\* the record whose query row is what the transform returned
Retransformed ==
    [slines EXCEPT ![2].start = out["query_start"],
                   ![2].align_size = out["query_end"] - out["query_start"]]

\* C10: for a query row with start + align_size <= size the transform of
\* query_start()/query_end() gives an interval of length align_size; on a
\* Positive row it is (start, start + align_size), and on a Negative row
\* applying it again to its own result gives back start and
\* start + align_size.
C10_TransformRoundTrip ==
    QueryRowFits =>
        /\ pc # "panic"
        /\ (Returned("query_start") /\ Returned("query_end")) =>
            /\ out["query_end"] - out["query_start"] = slines[2].align_size
            /\ slines[2].strand = Positive =>
                /\ out["query_start"] = slines[2].start
                /\ out["query_end"] = slines[2].start + slines[2].align_size
            /\ slines[2].strand = Negative =>
                \A checks \in BOOLEAN :
                    LET s2 == MafQueryStart(Retransformed, checks)
                        e2 == MafQueryEnd(Retransformed, checks)
                    IN  /\ ~s2.panic /\ s2.v = slines[2].start
                        /\ ~e2.panic
                        /\ e2.v = slines[2].start + slines[2].align_size

\* a Negative row that the transform moves was transformed
C10_Witness ==
    /\ QueryRowFits
    /\ slines[2].strand = Negative
    /\ slines[2].align_size > 0
    /\ Returned("query_start") /\ Returned("query_end")
    /\ out["query_start"] # slines[2].start

\* what the transform is in unbounded arithmetic
ExactQueryStart ==
    IF slines[2].strand = Positive THEN slines[2].start
    ELSE slines[2].size - slines[2].start - slines[2].align_size

ExactQueryEnd ==
    IF slines[2].strand = Positive
    THEN slines[2].start + slines[2].align_size
    ELSE slines[2].size - slines[2].start

\* C11: for every query row of u64 values, rows with start + align_size > size
\* included, query_start() and query_end() return a value: no call aborts, no
\* subtraction goes below zero and no addition past the u64 range (the value
\* returned is the exact one), and the record is left as it was.
C11_TransformNeverFails ==
    /\ pc # "panic"
    /\ slines = block0
    /\ Returned("query_start") => out["query_start"] = ExactQueryStart
    /\ Returned("query_end") => out["query_end"] = ExactQueryEnd

----------------------------------------------------------------------------
(* The text of a MAF source. A line is the sequence of its whitespace-      *)
(* separated tokens (the blank line has none); a token is a string.         *)

\* the decimal numerals among the tokens and the u64 each denotes
NumVal ==
    [t \in {"0", "1", "2", "3", "5", "6", "7"} |->
        CASE t = "0" -> 0 [] t = "1" -> 1 [] t = "2" -> 2 [] t = "3" -> 3
          [] t = "5" -> 5 [] t = "6" -> 6 [] t = "7" -> 7]

\* the characters of the sequence tokens
Chars ==
    [t \in {"AC", "G"} |->
        CASE t = "AC" -> <<"A", "C">> [] t = "G" -> <<"G">>]

BlankLine  == <<>>
ScoreLine  == <<"a">>
HeaderLine == <<"#">>
RowA1      == <<"s", "A", "0", "2", "+", "5", "AC">>
RowA2      == <<"s", "A", "3", "1", "-", "6", "G">>
RowB1      == <<"s", "B", "1", "2", "-", "7", "AC">>
\* a row whose start is not a number
RowBadNum  == <<"s", "B", "x", "2", "+", "7", "AC">>
\* a row with a field missing
RowShort   == <<"s", "A", "0", "2", "+", "5">>

\* bytes of a line with its line feed: one per token (taken as one
\* character), one per separator
LineLen(line) == IF Len(line) = 0 THEN 1 ELSE 2 * Len(line)

RECURSIVE BytesBefore(_, _)
\* BufReader::stream_position once p lines of s are consumed
BytesBefore(s, p) ==
    IF p = 0 THEN 0 ELSE BytesBefore(s, p - 1) + LineLen(s[p])

\* line.starts_with('s')
StartsWithS(line) == Len(line) > 0 /\ line[1] = "s"

----------------------------------------------------------------------------
(* str2u64, Strand::from, parse_sline *)

str2u64(t) ==
    IF t \in DOMAIN NumVal
    THEN [ok |-> TRUE, v |-> NumVal[t]]
    ELSE [ok |-> FALSE, v |-> 0]

\* parser::common, From<&str> for Strand
StrandFrom(t) == IF t = "+" THEN Positive ELSE Negative

Panicked == [kind |-> "panic", sline |-> <<>>]
ParseErr == [kind |-> "err", sline |-> <<>>]

\* the fields are taken in order: a missing field panics, a field that is
\* not a number returns the error, an eighth field panics
parse_sline(line) ==
    IF Len(line) < 3 THEN Panicked
    ELSE IF ~str2u64(line[3]).ok THEN ParseErr
    ELSE IF Len(line) < 4 THEN Panicked
    ELSE IF ~str2u64(line[4]).ok THEN ParseErr
    ELSE IF Len(line) < 6 THEN Panicked
    ELSE IF ~str2u64(line[6]).ok THEN ParseErr
    ELSE IF Len(line) < 7 THEN Panicked
    ELSE IF Len(line) > 7 THEN Panicked
    ELSE [kind |-> "ok",
          sline |-> [name |-> line[2],
                     start |-> str2u64(line[3]).v,
                     align_size |-> str2u64(line[4]).v,
                     strand |-> StrandFrom(line[5]),
                     size |-> str2u64(line[6]).v,
                     seq |-> Chars[line[7]]]]

----------------------------------------------------------------------------
(* MAFReader::new, MAFRecords::next *)

\* what next() hands out: kind is "ok" (a record), "err", "panic" or "none";
\* rows are the numbers of the lines the record's rows were parsed from and
\* pos the lines consumed when it returns
Item(kind, ss, rows, p) ==
    [kind |-> kind, slines |-> ss, rows |-> rows, pos |-> p]

RECURSIVE ReadRows(_, _, _, _)
\* the inner loop: the s-lines that follow the first one
ReadRows(s, p, ss, rows) ==
    IF p >= Len(s) THEN Item("ok", ss, rows, p)
    ELSE IF StartsWithS(s[p + 1])
         THEN LET r == parse_sline(s[p + 1])
              IN  IF r.kind # "ok" THEN Item(r.kind, <<>>, <<>>, p + 1)
                  ELSE ReadRows(s, p + 1, Append(ss, r.sline),
                                Append(rows, p + 1))
         ELSE Item("ok", ss, rows, p + 1)

RECURSIVE RecordsNextItem(_, _)
\* next() with p lines of s consumed
RecordsNextItem(s, p) ==
    IF p >= Len(s) THEN Item("none", <<>>, <<>>, p)
    ELSE IF ~StartsWithS(s[p + 1]) THEN RecordsNextItem(s, p + 1)
    ELSE LET r == parse_sline(s[p + 1])
         IN  IF r.kind # "ok" THEN Item(r.kind, <<>>, <<>>, p + 1)
             ELSE ReadRows(s, p + 1, <<r.sline>>, <<p + 1>>)

----------------------------------------------------------------------------
(* Reading a source to its end: SpecReader *)

ReaderLines ==
    {HeaderLine, BlankLine, ScoreLine, RowA1, RowBadNum, RowShort}

Sources(lines, n) == UNION { [1..k -> lines] : k \in 0..n }

InitReader ==
    /\ pc = "new"
    /\ src \in Sources(ReaderLines, MaxLines)
    /\ pos = 0
    /\ header = <<>>
    /\ emitted = <<>>
    /\ IdleIndex
    /\ IdleRecord

\* MAFReader::new: the first line is read into header, whatever it is
New ==
    /\ pc = "new"
    /\ header' = IF Len(src) = 0 THEN <<>> ELSE src[1]
    /\ pos' = IF Len(src) = 0 THEN 0 ELSE 1
    /\ pc' = "iter"
    /\ UNCHANGED <<src, emitted>>
    /\ UNCHANGED indexVars
    /\ UNCHANGED recordVars

\* reader.records().next()
RecordsNext ==
    /\ pc = "iter"
    /\ LET it == RecordsNextItem(src, pos)
       IN  /\ pos' = it.pos
           /\ pc' = CASE it.kind = "none" -> "done"
                      [] it.kind = "panic" -> "panic"
                      [] OTHER -> "iter"
           /\ emitted' = IF it.kind \in {"ok", "err"}
                         THEN Append(emitted,
                                     [kind |-> it.kind, slines |-> it.slines,
                                      rows |-> it.rows])
                         ELSE emitted
    /\ UNCHANGED <<src, header>>
    /\ UNCHANGED indexVars
    /\ UNCHANGED recordVars

NextReader ==
    \/ New
    \/ RecordsNext

SpecReader == InitReader /\ [][NextReader]_vars

\* the row lines of s and those of them that do not parse
IsRow(s, i) == StartsWithS(s[i])
Malformed(s, i) == IsRow(s, i) /\ parse_sline(s[i]).kind # "ok"

RECURSIVE RunsFrom(_, _, _, _)
\* the maximal runs of consecutive row lines among lines i.. of s, each the
\* sequence of its line numbers; cur is the run that line i - 1 ends
RunsFrom(s, i, cur, acc) ==
    LET closed == IF cur = <<>> THEN acc ELSE Append(acc, cur)
    IN  IF i > Len(s) THEN closed
        ELSE IF IsRow(s, i) THEN RunsFrom(s, i + 1, Append(cur, i), acc)
        ELSE RunsFrom(s, i + 1, <<>>, closed)

EmittedRows == [k \in 1..Len(emitted) |-> emitted[k].rows]

\* well-formed MAF text: an optional '#' header line first, then row lines
\* that parse, blank lines and 'a' lines
WellFormed(s) ==
    \A i \in 1..Len(s) :
        /\ ~Malformed(s, i)
        /\ s[i] = HeaderLine => i = 1

\* C8: iterating the records of well-formed text to the end, with or
\* without the header line, emits exactly the maximal runs of consecutive
\* row lines of the input, in input order, and nothing else.
C8_BlocksPartitionRows ==
    (pc = "done" /\ WellFormed(src)) =>
        /\ \A k \in 1..Len(emitted) : emitted[k].kind = "ok"
        /\ EmittedRows = RunsFrom(src, 1, <<>>, <<>>)

\* the source with every malformed row put right
Repaired(s) == [i \in 1..Len(s) |-> IF Malformed(s, i) THEN RowA1 ELSE s[i]]

RECURSIVE ItemsFrom(_, _, _)
\* everything records() hands out from p lines consumed on
ItemsFrom(s, p, acc) ==
    LET it == RecordsNextItem(s, p)
    IN  IF it.kind \in {"none", "panic"} THEN acc
        ELSE ItemsFrom(s, it.pos, Append(acc, it))

\* what the reader emits for the repaired source
IfWellFormed == ItemsFrom(Repaired(src), IF Len(src) = 0 THEN 0 ELSE 1, <<>>)

\* C7: a malformed row makes the iterator yield one error item in the place
\* of its block, never aborts the process, and leaves every other block as
\* it would be had the row been well formed.
C7_ErrorItemInPlace ==
    (pc \in {"done", "panic"}) =>
        /\ pc = "done"
        /\ Len(emitted) = Len(IfWellFormed)
        /\ \A k \in 1..Len(emitted) :
             IF \E j \in 1..Len(IfWellFormed[k].rows) :
                    Malformed(src, IfWellFormed[k].rows[j])
             THEN emitted[k].kind = "err"
             ELSE /\ emitted[k].kind = "ok"
                  /\ emitted[k].rows = IfWellFormed[k].rows

----------------------------------------------------------------------------
(* build_index *)

RECURSIVE NextRowAt(_, _)
\* lines of s before the first row line after the first p
NextRowAt(s, p) ==
    IF p >= Len(s) \/ StartsWithS(s[p + 1]) THEN p ELSE NextRowAt(s, p + 1)

\* a position that skips the non-row lines ahead
stream_position_AtNextRow(s, p) == BytesBefore(s, NextRowAt(s, p))

\* BufReader::stream_position with p lines of s consumed
stream_position(s, p) == BytesBefore(s, p)

Returns(err, name) == [err |-> err, name |-> name]
Running == Returns("none", "")

InVec(v, x) == \E i \in 1..Len(v) : v[i] = x

\* the row's interval
IvP(sline, off) ==
    [start |-> sline.start,
     end |-> sline.start + sline.align_size,
     strand |-> sline.strand,
     offset |-> off]

\* the index with an entry for the row's name
Entered(ix, sline, o) ==
    IF sline.name \in DOMAIN ix THEN ix
    ELSE [n \in DOMAIN ix \cup {sline.name} |->
            IF n = sline.name
            THEN [ivls |-> <<>>, size |-> sline.size, ord |-> o]
            ELSE ix[n]]

\* the entry is made anew for every row of the name
Reentered(ix, sline, o) ==
    [n \in DOMAIN ix \cup {sline.name} |->
        IF n = sline.name
        THEN [ivls |-> <<>>, size |-> sline.size, ord |-> o]
        ELSE ix[n]]

Pushed(ix, sline, off) ==
    [ix EXCEPT ![sline.name].ivls = Append(ix[sline.name].ivls,
                                           IvP(sline, off))]

RowResult(err, name, ix, names) ==
    [err |-> err, name |-> name, idx |-> ix, name_vec |-> names]

\* the ordinal is compared before the name is looked up in name_vec
ProcessRow_OrderFirst(ix, names, sline, o, off) ==
    IF sline.name \in DOMAIN ix /\ ix[sline.name].ord # o
    THEN RowResult("RowOrder", "", ix, names)
    ELSE IF InVec(names, sline.name)
    THEN RowResult("DuplicateName", sline.name, ix, names)
    ELSE RowResult("none", "", Pushed(Entered(ix, sline, o), sline, off),
                   Append(names, sline.name))

\* the ordinal is never compared
ProcessRow_NoOrderCheck(ix, names, sline, o, off) ==
    IF InVec(names, sline.name)
    THEN RowResult("DuplicateName", sline.name, ix, names)
    ELSE RowResult("none", "", Pushed(Entered(ix, sline, o), sline, off),
                   Append(names, sline.name))

\* the entry is inserted for every row, not on first sight only
ProcessRow_Reinsert(ix, names, sline, o, off) ==
    IF InVec(names, sline.name)
    THEN RowResult("DuplicateName", sline.name, ix, names)
    ELSE IF sline.name \in DOMAIN ix /\ ix[sline.name].ord # o
    THEN RowResult("RowOrder", "", ix, Append(names, sline.name))
    ELSE RowResult("none", "", Pushed(Reentered(ix, sline, o), sline, off),
                   Append(names, sline.name))

\* the body of the loop over the rows of a record, for the row sline at
\* position o: err is "none" when the row was inserted
ProcessRow(ix, names, sline, o, off) ==
    IF InVec(names, sline.name)
    THEN RowResult("DuplicateName", sline.name, ix, names)
    ELSE IF sline.name \in DOMAIN ix /\ ix[sline.name].ord # o
    THEN RowResult("RowOrder", "", ix, Append(names, sline.name))
    ELSE RowResult("none", "", Pushed(Entered(ix, sline, o), sline, off),
                   Append(names, sline.name))

\* the index is serialized before it is tested for emptiness
Finish_WriteFirst(ix, wr) ==
    [written |-> Append(wr, ix),
     err |-> IF DOMAIN ix # {} THEN "Ok" ELSE "EmptyRecord"]

\* after the loop: [written, err]
Finish(ix, wr) ==
    IF DOMAIN ix # {}
    THEN [written |-> Append(wr, ix), err |-> "Ok"]
    ELSE [written |-> wr, err |-> "EmptyRecord"]

----------------------------------------------------------------------------
(* Building the index of a source: SpecIndex *)

IndexLines ==
    {BlankLine, ScoreLine, RowA1, RowA2, RowB1, RowBadNum, RowShort}

\* a reader constructed on a source that begins with its header line, handed
\* to build_index with an empty writer
InitIndex ==
    /\ pc = "loop"
    /\ \E body \in Sources(IndexLines, MaxLines) : src = <<HeaderLine>> \o body
    /\ pos = 1
    /\ header = HeaderLine
    /\ emitted = <<>>
    /\ idx = <<>>
    /\ name_vec = <<>>
    /\ record = <<>>
    /\ ord = 0
    /\ offset = 0
    /\ written = <<>>
    /\ result = Running
    /\ nread = 0
    /\ IdleRecord

\* the head of the loop: the stream position, then the next record
BuildRead ==
    /\ pc = "loop"
    /\ offset' = stream_position(src, pos)
    /\ LET it == RecordsNextItem(src, pos)
       IN  /\ pos' = it.pos
           /\ record' = IF it.kind = "ok" THEN it.slines ELSE record
           /\ name_vec' = IF it.kind = "ok" THEN <<>> ELSE name_vec
           /\ ord' = IF it.kind = "ok" THEN 0 ELSE ord
           /\ nread' = IF it.kind = "ok" THEN nread + 1 ELSE nread
           /\ pc' = CASE it.kind = "none" -> "finish"
                      [] it.kind = "panic" -> "panic"
                      [] it.kind = "err" -> "done"
                      [] OTHER -> "rows"
           /\ result' = IF it.kind = "err" THEN Returns("ParseError", "")
                        ELSE result
    /\ UNCHANGED <<src, header, emitted, idx, written>>
    /\ UNCHANGED recordVars

\* one turn of the loop over the rows of the record
BuildRow ==
    /\ pc = "rows"
    /\ LET r == ProcessRow(idx, name_vec, record[ord + 1], ord, offset)
       IN  /\ idx' = r.idx
           /\ name_vec' = r.name_vec
           /\ IF r.err # "none"
              THEN /\ result' = Returns(r.err, r.name)
                   /\ pc' = "done"
                   /\ ord' = ord
              ELSE /\ result' = result
                   /\ ord' = ord + 1
                   /\ pc' = IF ord + 1 = Len(record) THEN "loop" ELSE "rows"
    /\ UNCHANGED <<src, pos, header, emitted, record, offset, written, nread>>
    /\ UNCHANGED recordVars

\* after the loop: the index is serialized unless it is empty
BuildFinish ==
    /\ pc = "finish"
    /\ LET f == Finish(idx, written)
       IN  /\ written' = f.written
           /\ result' = Returns(f.err, "")
    /\ pc' = "done"
    /\ UNCHANGED <<src, pos, header, emitted, idx, name_vec, record, ord,
                   offset, nread>>
    /\ UNCHANGED recordVars

NextIndex ==
    \/ BuildRead
    \/ BuildRow
    \/ BuildFinish

SpecIndex == InitIndex /\ [][NextIndex]_vars

----------------------------------------------------------------------------
(* The source as build_index meets it: the blocks after the header line.   *)
(* bl is the list of the blocks, each the line numbers of its rows.         *)

\* the blocks: the maximal runs of row lines after the first line
Blocks == RunsFrom(src, 2, <<>>, <<>>)

NameAt(bl, b, i) == src[bl[b][i]][2]
RowsOf(bl, b) == 1..Len(bl[b])
BlockHas(bl, b, name) == \E i \in RowsOf(bl, b) : NameAt(bl, b, i) = name

\* every row of blocks 1..b parses
ParsesThrough(bl, b) ==
    \A b2 \in 1..b : \A i \in RowsOf(bl, b2) : ~Malformed(src, bl[b2][i])

AllRowsParse(bl) == ParsesThrough(bl, Len(bl))

\* row i of block b repeats the name of an earlier row of block b
DupAt(bl, b, i) ==
    \E i2 \in 1..(i - 1) : NameAt(bl, b, i2) = NameAt(bl, b, i)

\* row i of block b carries a name that an earlier block has at another
\* row position
MisAt(bl, b, i) ==
    \E b2 \in 1..(b - 1) : \E i2 \in RowsOf(bl, b2) :
        NameAt(bl, b2, i2) = NameAt(bl, b, i) /\ i2 # i

FailAt(bl, b, i) == DupAt(bl, b, i) \/ MisAt(bl, b, i)

\* the rows of the source, each as <<block, row position>>
Places(bl) ==
    UNION { { <<b, i>> : i \in RowsOf(bl, b) } : b \in 1..Len(bl) }

Precedes(p1, p2) == p1[1] < p2[1] \/ (p1[1] = p2[1] /\ p1[2] < p2[2])

\* the first row, in reading order, with a repeated or a displaced name
FirstFail(bl, pl) ==
    /\ FailAt(bl, pl[1], pl[2])
    /\ \A p2 \in Places(bl) : Precedes(p2, pl) => ~FailAt(bl, p2[1], p2[2])

\* the first row that repeats a name of its block
FirstDup(bl, pl) ==
    /\ DupAt(bl, pl[1], pl[2])
    /\ \A p2 \in Places(bl) : Precedes(p2, pl) => ~DupAt(bl, p2[1], p2[2])

\* the first row that displaces a name of an earlier block
FirstMis(bl, pl) ==
    /\ MisAt(bl, pl[1], pl[2])
    /\ \A p2 \in Places(bl) : Precedes(p2, pl) => ~MisAt(bl, p2[1], p2[2])

\* the rows build_index has inserted so far
Processed(b, i) == b < nread \/ (b = nread /\ i <= ord)

\* number of blocks among 1..b that have the name
BlocksWith(bl, name, b) ==
    Cardinality({ b2 \in 1..b : BlockHas(bl, b2, name) })

IvlsOf(name) == IF name \in DOMAIN idx THEN idx[name].ivls ELSE <<>>

Ended == pc \in {"done", "panic"}

----------------------------------------------------------------------------
(* C2 *)

RECURSIVE IvlTotal(_, _)
\* number of intervals the index ix holds for the names of the set ns
IvlTotal(ix, ns) ==
    IF ns = {} THEN 0
    ELSE LET n == CHOOSE x \in ns : TRUE
         IN  Len(ix[n].ivls) + IvlTotal(ix, ns \ {n})

RowLines == { l \in 2..Len(src) : IsRow(src, l) }

\* C2: the writer is written only by a build that returns success: a run
\* that ends in an error (or has not returned) has written nothing, a
\* source without blocks ends in the empty-input error, and a successful
\* run has written the index once, after the whole source was read, with
\* an interval for every row of every block.
C2_WriteOnlyOnSuccess ==
    /\ result.err # "Ok" => written = <<>>
    /\ (pc = "done" /\ RowLines = {}) => result.err = "EmptyRecord"
    /\ result.err = "Ok" =>
        /\ pc = "done"
        /\ written = <<idx>>
        /\ pos = Len(src)
        /\ nread = Len(Blocks)
        /\ IvlTotal(written[1], DOMAIN written[1]) = Cardinality(RowLines)

\* a build of two blocks or more succeeded
C2_Witness ==
    /\ pc = "done"
    /\ result.err = "Ok"
    /\ nread >= 2
    /\ Len(written) = 1

----------------------------------------------------------------------------
(* C3 *)

\* what C3 says of the repeated row pl when the build stops at it
AbortsWithDuplicateName(bl, pl) ==
    /\ pc = "done"
    /\ result = Returns("DuplicateName", NameAt(bl, pl[1], pl[2]))
    /\ nread = pl[1]
    /\ pos <= bl[pl[1]][Len(bl[pl[1]])] + 1
    /\ Len(IvlsOf(NameAt(bl, pl[1], pl[2])))
         = BlocksWith(bl, NameAt(bl, pl[1], pl[2]), pl[1])

\* C3 as claimed, on sources whose rows all parse: the first block with a
\* repeated name aborts the build at that block with DuplicateName of that
\* name, before an interval of the second occurrence is inserted and before
\* a later block is read; DuplicateName is returned only when some block
\* repeats a name.
C3_DuplicateNameAborts ==
    pc = "done" =>
        LET bl == Blocks
        IN  AllRowsParse(bl) =>
              /\ \A pl \in Places(bl) :
                   FirstDup(bl, pl) => AbortsWithDuplicateName(bl, pl)
              /\ result.err = "DuplicateName" =>
                   \E pl \in Places(bl) : DupAt(bl, pl[1], pl[2])

\* C3 as amended: a block with a repeated name never lets the build succeed
\* or write; the build aborts at that block with DuplicateName of that name,
\* with no later block read and no interval of the second occurrence
\* inserted, when the repeated row is the first row in reading order with a
\* repeated or displaced name and every row up to its block parses;
\* DuplicateName is returned only for a name that the block just read has
\* in two rows.
C3_DuplicateNameFirstFailure ==
    (Ended \/ result.err = "DuplicateName") =>
        LET bl == Blocks
        IN  /\ Ended =>
                \A pl \in Places(bl) :
                    DupAt(bl, pl[1], pl[2]) =>
                        /\ result.err # "Ok"
                        /\ written = <<>>
                        /\ (FirstFail(bl, pl) /\ ParsesThrough(bl, pl[1]))
                              => AbortsWithDuplicateName(bl, pl)
            /\ result.err = "DuplicateName" =>
                /\ nread >= 1
                /\ \E i \in RowsOf(bl, nread) :
                     DupAt(bl, nread, i) /\ NameAt(bl, nread, i) = result.name

\* a build was aborted by a repeated name in its second block
C3_Witness ==
    /\ pc = "done"
    /\ result.err = "DuplicateName"
    /\ nread = 2
    /\ \E pl \in Places(Blocks) :
         DupAt(Blocks, pl[1], pl[2]) /\ FirstFail(Blocks, pl)

----------------------------------------------------------------------------
(* C4 *)

\* every entry's ord is the row position of its name in every row inserted
\* so far, and every inserted row has its entry
OrdIsRowPosition ==
    nread >= 1 =>
        LET bl == Blocks
        IN  \A pl \in Places(bl) :
                Processed(pl[1], pl[2]) =>
                    /\ NameAt(bl, pl[1], pl[2]) \in DOMAIN idx
                    /\ idx[NameAt(bl, pl[1], pl[2])].ord = pl[2] - 1

\* C4 as claimed, on sources whose rows all parse: the first row that has a
\* name at another position than an earlier block aborts the build at its
\* block with the ordering error, and in every state each entry's ord is
\* the row position of its name in all rows inserted so far.
C4_DisplacedNameAborts ==
    /\ pc = "done" =>
        LET bl == Blocks
        IN  AllRowsParse(bl) =>
              \A pl \in Places(bl) :
                 FirstMis(bl, pl) =>
                    (result.err = "RowOrder" /\ nread = pl[1])
    /\ OrdIsRowPosition

\* C4 as amended: a name displaced from its position in an earlier block
\* never lets the build succeed or write; the build aborts at that block
\* with the ordering error when the displaced row is the first row in
\* reading order with a repeated or displaced name, does not itself repeat
\* a name of its block, and every row up to its block parses; the ordering
\* error is returned only at a displaced row; and in every state each
\* entry's ord is the row position of its name in all rows inserted so far.
C4_DisplacedNameFirstFailure ==
    /\ (Ended \/ result.err = "RowOrder") =>
        LET bl == Blocks
        IN  /\ Ended =>
                \A pl \in Places(bl) :
                    MisAt(bl, pl[1], pl[2]) =>
                        /\ result.err # "Ok"
                        /\ written = <<>>
                        /\ (/\ ~DupAt(bl, pl[1], pl[2])
                            /\ FirstFail(bl, pl)
                            /\ ParsesThrough(bl, pl[1])) =>
                                /\ pc = "done"
                                /\ result.err = "RowOrder"
                                /\ nread = pl[1]
            /\ result.err = "RowOrder" =>
                /\ nread >= 2
                /\ ord + 1 \in RowsOf(bl, nread)
                /\ MisAt(bl, nread, ord + 1)
    /\ OrdIsRowPosition

\* a build was aborted by a displaced name in its second block
C4_Witness ==
    /\ pc = "done"
    /\ result.err = "RowOrder"
    /\ nread = 2
    /\ \E pl \in Places(Blocks) :
         MisAt(Blocks, pl[1], pl[2]) /\ FirstFail(Blocks, pl)

----------------------------------------------------------------------------
(* C5 *)

AllNames == { src[l][2] : l \in RowLines }

RECURSIVE BlocksOf(_, _, _)
\* the block numbers, in order, of the blocks among b.. that have the name
BlocksOf(bl, name, b) ==
    IF b > Len(bl) THEN <<>>
    ELSE IF BlockHas(bl, b, name) THEN <<b>> \o BlocksOf(bl, name, b + 1)
    ELSE BlocksOf(bl, name, b + 1)

\* the first row position at which block b has the name
PlaceIn(bl, b, name) ==
    CHOOSE i \in RowsOf(bl, b) :
        /\ NameAt(bl, b, i) = name
        /\ \A i2 \in 1..(i - 1) : NameAt(bl, b, i2) # name

\* the line of that row
LineOf(bl, b, name) == src[bl[b][PlaceIn(bl, b, name)]]

StrandOfToken(t) == IF t = "+" THEN Positive ELSE Negative

\* C5: after a successful build the index has one entry per name of the
\* source; the entry's intervals are, in block order, one per block that
\* has the name, each with the start, start + align_size and strand of that
\* block's row; size and ord are those of the name's first row. A source
\* with a block, rows that parse, names unique per block and at one row
\* position throughout is built successfully.
C5_IndexOfSuccessfulBuild ==
    pc = "done" =>
        LET bl == Blocks
        IN  /\ result.err = "Ok" =>
                /\ DOMAIN idx = AllNames
                /\ \A name \in AllNames :
                    LET bs == BlocksOf(bl, name, 1)
                        e == idx[name]
                    IN  /\ Len(e.ivls) = Len(bs)
                        /\ \A m \in 1..Len(bs) :
                             LET line == LineOf(bl, bs[m], name)
                             IN  /\ e.ivls[m].start = NumVal[line[3]]
                                 /\ e.ivls[m].end
                                      = NumVal[line[3]] + NumVal[line[4]]
                                 /\ e.ivls[m].strand = StrandOfToken(line[5])
                        /\ e.size = NumVal[LineOf(bl, bs[1], name)[6]]
                        /\ e.ord = PlaceIn(bl, bs[1], name) - 1
            /\ (/\ Len(bl) > 0
                /\ AllRowsParse(bl)
                /\ \A pl \in Places(bl) : ~FailAt(bl, pl[1], pl[2]))
                  => result.err = "Ok"

\* a build of two blocks succeeded in which a name has two different
\* intervals
C5_Witness ==
    /\ pc = "done"
    /\ result.err = "Ok"
    /\ nread = 2
    /\ \E name \in DOMAIN idx :
         /\ Len(idx[name].ivls) = 2
         /\ idx[name].ivls[1].start # idx[name].ivls[2].start
         /\ idx[name].ivls[1].strand # idx[name].ivls[2].strand

----------------------------------------------------------------------------
(* C6 *)

\* the interval that the inserted row i of block b put into the index
IvlOf(bl, b, i) ==
    idx[NameAt(bl, b, i)].ivls[BlocksWith(bl, NameAt(bl, b, i), b)]

\* byte offset of the first row line of block b
FirstRowOffset(bl, b) == BytesBefore(src, bl[b][1] - 1)

\* lines consumed when the reader is asked for block b: the header for the
\* first block, all up to the line that ended the block before for the others
ReadFrom(bl, b) == IF b = 1 THEN 1 ELSE bl[b - 1][Len(bl[b - 1])] + 1

\* C6 as claimed: the offset of every interval is the byte offset of the
\* first row line of the interval's block.
C6_OffsetOfFirstRow ==
    nread >= 1 =>
        LET bl == Blocks
        IN  \A pl \in Places(bl) :
                Processed(pl[1], pl[2]) =>
                    IvlOf(bl, pl[1], pl[2]).offset = FirstRowOffset(bl, pl[1])

\* C6 as amended: the offset of every interval is the stream position
\* before its block was read, the byte offset of the line after the header
\* (first block) or after the line that ended the previous block; it is
\* never beyond the first row line and is that line's offset exactly when
\* the row follows at once.
C6_OffsetOfReadPosition ==
    nread >= 1 =>
        LET bl == Blocks
        IN  \A pl \in Places(bl) :
                Processed(pl[1], pl[2]) =>
                    LET off == IvlOf(bl, pl[1], pl[2]).offset
                    IN  /\ off = BytesBefore(src, ReadFrom(bl, pl[1]))
                        /\ off <= FirstRowOffset(bl, pl[1])
                        /\ (off = FirstRowOffset(bl, pl[1]))
                             <=> (bl[pl[1]][1] = ReadFrom(bl, pl[1]) + 1)

\* the second block of a build was inserted and a non-row line lies
\* between the line that ended the first block and its first row
C6_Witness ==
    /\ nread = 2
    /\ ord >= 1
    /\ Len(Blocks) >= 2
    /\ Blocks[2][1] > ReadFrom(Blocks, 2) + 1

====
